---- MODULE Spec2Model ----
(***************************************************************************)
(* BaseNNImputer (pypots/imputation/base.py): the object built by          *)
(* __init__ and the epoch loop of _train_model, one action per block of   *)
(* the loop.                                                               *)
(*                                                                         *)
(* Numbers.  A Python number is the pair <<n, d>>: the value n/d in lowest *)
(* terms with d > 0, or float('inf') as <<1, 0>>.  Batch losses are small  *)
(* positive integers, np.mean of a collector is the exact fraction, and   *)
(* `x - 1`, `x == 0`, `x < y` are computed on the pairs.  Batch sources    *)
(* yield at least one batch and no loss is NaN.                           *)
(*                                                                         *)
(* Parameters.  The live parameter tensors of self.model are abstracted   *)
(* to `params`, the number of optimizer steps applied to them so far: two  *)
(* values of `params` are equal exactly when no step lies between them.   *)
(***************************************************************************)
EXTENDS Integers, Sequences, FiniteSets, TLC

\* ------------------------------------------------------------------ bounds
\* epochs given to __init__: 0 .. MaxEpochs
MaxEpochs == 4
\* patience given to __init__: 0 .. MaxPatience, or inf
MaxPatience == 2
\* batches a batch source yields per pass: 1 .. MaxBatches
MaxBatches == 2
\* loss of one batch: 1 .. MaxLoss
MaxLoss == 2
\* _train_model calls on one object
MaxCalls == 2
\* forward computations over the life of one object: a call is begun only
\* if its whole epoch budget fits
MaxForward == 6

VARIABLES
    lr,                          \* self.lr
    batch_size,                  \* self.batch_size
    weight_decay,                \* self.weight_decay
    epochs,                      \* self.epochs
    patience,                    \* self.patience
    best_loss,                   \* self.best_loss
    best_model_dict,             \* self.best_model_dict
    logger,                      \* self.logger
    params,                      \* the tensors of self.model.parameters()
    mode,                        \* self.model.training: "train" or "eval"
    pc,                          \* position in _train_model
    training_loader,             \* argument: the training batch source
    val_loader,                  \* argument: the validation batch source or None
    epoch,                       \* position of the range(self.epochs) iterator
    epoch_train_loss_collector,  \* local
    epoch_val_loss_collector,    \* local
    mean_loss,                   \* local: the monitored loss of the epoch
    init_patience,               \* history: the patience given to __init__
    start_patience,              \* history: self.patience when this call began
    monitored,                   \* history: per epoch of this call, mean_loss and the branch taken
    captured,                    \* history: epoch and parameters of the last capture
    early_stop,                  \* history: the call printed 'Exceeded the training patience'
    calls,                       \* history: _train_model calls begun on this object
    forward_calls,               \* history: self.model.forward calls made so far
    constructed,                 \* history: the arguments given to __init__
    at_epoch_end,                \* history: best loss and snapshot when the last epoch ended
    restored                     \* fit has loaded best_model_dict into the model

vars == << epochs, patience, best_loss, best_model_dict, logger, params, mode,
           pc, training_loader, val_loader, epoch, epoch_train_loss_collector,
           epoch_val_loss_collector, mean_loss, init_patience, start_patience,
           monitored, captured, early_stop, calls, forward_calls, lr,
           batch_size, weight_decay, constructed, at_epoch_end, restored >>

\* the hyper-parameters that no step of _train_model assigns, and the record
\* of the constructor's arguments
fixed == << lr, batch_size, weight_decay, constructed >>

\* ----------------------------------------------------------------- numbers
RECURSIVE Gcd(_, _)
Gcd(a, b) == IF b = 0 THEN a ELSE Gcd(b, a % b)

Num(n) == << n, 1 >>
PosInf == << 1, 0 >>

\* float('inf')
Inf == PosInf

RECURSIVE Sum(_)
Sum(s) == IF s = << >> THEN 0 ELSE Head(s) + Sum(Tail(s))

\* np.mean(collector) of a non-empty list of batch losses
Mean(s) ==
    LET g == Gcd(Sum(s), Len(s))
    IN  << Sum(s) \div g, Len(s) \div g >>

\* x < y
Less(x, y) == x[1] * y[2] < y[1] * x[2]

\* x <= y (used by the properties only)
Leq(x, y) == x[1] * y[2] <= y[1] * x[2]

\* x - 1  (inf - 1 is inf)
Minus1(x) == << x[1] - x[2], x[2] >>

\* x == 0
IsZero(x) == x[1] = 0

\* ------------------------------------------------------------------ values
None == [kind |-> "None"]

Loader(n) == [kind |-> "loader", batches |-> n]

\* forward calls of one epoch over the given batch sources
EpochForwards(tl, vl) ==
    tl.batches + (IF vl = None THEN 0 ELSE vl.batches)

\* variant: no snapshot is taken
StateDictMissing == None

\* self.model.state_dict(): an OrderedDict whose tensors share storage with
\* the live parameters (no clone is taken)
StateDict == [kind |-> "state_dict", storage |-> "live"]

\* the parameter values a snapshot holds now
Tensors(d) == IF d.storage = "live" THEN params ELSE d.values

LossValues == 1 .. MaxLoss
Patiences == { Num(p) : p \in 0 .. MaxPatience } \cup { Inf }

\* -------------------------------------------------------------------- init
\* the attributes __init__ sets besides the hyper-parameters
ObjectAfterInit ==
    /\ init_patience = patience
    /\ best_model_dict = None
    /\ best_loss = Inf
    /\ logger = [training_loss |-> << >>, validating_loss |-> << >>]
    /\ params = 0
    /\ mode = "train"
    /\ pc = "idle"
    /\ training_loader = None
    /\ val_loader = None
    /\ epoch = 0
    /\ epoch_train_loss_collector = << >>
    /\ epoch_val_loss_collector = << >>
    /\ mean_loss = None
    /\ start_patience = patience
    /\ monitored = << >>
    /\ captured = None
    /\ early_stop = FALSE
    /\ calls = 0
    /\ forward_calls = 0
    /\ at_epoch_end = None
    /\ restored = FALSE

\* BaseNNImputer.__init__ given the arguments (learning_rate, epochs,
\* patience, batch_size, weight_decay): every argument is stored as given
Construct(a_lr, a_epochs, a_patience, a_batch_size, a_weight_decay) ==
    /\ lr = a_lr
    /\ epochs = a_epochs
    /\ patience = a_patience
    /\ batch_size = a_batch_size
    /\ weight_decay = a_weight_decay
    /\ constructed = [learning_rate |-> a_lr, epochs |-> a_epochs,
                      patience |-> a_patience, batch_size |-> a_batch_size,
                      weight_decay |-> a_weight_decay]
    /\ ObjectAfterInit

\* construction with a configuration inside the documented constraints:
\* positive learning rate and batch size, epochs >= 0, patience >= 0 or inf
Init ==
    \E e \in 0 .. MaxEpochs, p \in Patiences :
        Construct(Num(1), e, p, 1, Num(0))

\* construction with any of the arguments __init__ accepts, among them a
\* negative epoch budget, a learning rate of zero and a batch size of zero
InitAny ==
    \E l \in { Num(0), Num(1) }, e \in -1 .. MaxEpochs, p \in Patiences,
       b \in { 0, 1 } :
        Construct(l, e, p, b, Num(0))

\* ----------------------------------------------------------------- actions
\* _train_model entry: new optimizer, reset of best_loss and best_model_dict
TrainModel(tl, vl) ==
    /\ pc \in { "idle", "returned", "raised" }
    /\ calls < MaxCalls
    /\ forward_calls + epochs * EpochForwards(tl, vl) <= MaxForward
    /\ training_loader' = tl
    /\ val_loader' = vl
    /\ best_loss' = Inf
    /\ best_model_dict' = None
    /\ epoch' = 0
    /\ epoch_train_loss_collector' = << >>
    /\ epoch_val_loss_collector' = << >>
    /\ mean_loss' = None
    /\ start_patience' = patience
    /\ monitored' = << >>
    /\ captured' = None
    /\ early_stop' = FALSE
    /\ calls' = calls + 1
    /\ pc' = "for"
    /\ UNCHANGED << epochs, patience, logger, params, mode, init_patience,
                    forward_calls >>
    /\ at_epoch_end' = [best_loss |-> Inf, best_model_dict |-> None,
                        tensors |-> None]
    /\ restored' = FALSE
    /\ UNCHANGED fixed

\* variant: one iteration too many, range(self.epochs + 1)
InRangeInclusive(i, n) == i <= n

\* `epoch in range(self.epochs)`: the iterator has a next value
InRange(i, n) == i < n

\* `for epoch in range(self.epochs)`: next iteration, or the loop is exhausted
ForEpoch ==
    /\ pc = "for"
    /\ IF InRange(epoch, epochs)
       THEN /\ mode' = "train"
            /\ epoch_train_loss_collector' = << >>
            /\ epoch_val_loss_collector' = << >>
            /\ pc' = "train"
       ELSE /\ pc' = "finished"
            /\ UNCHANGED << mode, epoch_train_loss_collector,
                            epoch_val_loss_collector >>
    /\ UNCHANGED << epochs, patience, best_loss, best_model_dict, logger,
                    params, training_loader, val_loader, epoch, mean_loss,
                    init_patience, start_patience, monitored, captured,
                    early_stop, calls, forward_calls >>
    /\ UNCHANGED << fixed, at_epoch_end, restored >>

\* one training batch: forward, backward, optimizer.step(), collect the loss
TrainBatch(loss) ==
    /\ pc = "train"
    /\ Len(epoch_train_loss_collector) < training_loader.batches
    /\ forward_calls' = forward_calls + 1
    /\ params' = params + 1
    /\ epoch_train_loss_collector' = Append(epoch_train_loss_collector, loss)
    /\ UNCHANGED << epochs, patience, best_loss, best_model_dict, logger, mode,
                    pc, training_loader, val_loader, epoch,
                    epoch_val_loss_collector, mean_loss, init_patience,
                    start_patience, monitored, captured, early_stop, calls >>
    /\ UNCHANGED << fixed, at_epoch_end, restored >>

\* variant: self.model.eval() left out, the mode stays as it is
ModeLeftAsIs == mode

\* self.model.eval()
ModeForValidation == "eval"

\* a forward computation of the training pass raises: nothing catches it, the
\* call is over (zero_grad has run, backward and optimizer.step() have not)
TrainRaise ==
    /\ pc = "train"
    /\ Len(epoch_train_loss_collector) < training_loader.batches
    /\ forward_calls' = forward_calls + 1
    /\ pc' = "raised"
    /\ UNCHANGED << epochs, patience, best_loss, best_model_dict, logger, mode,
                    params, training_loader, val_loader, epoch,
                    epoch_train_loss_collector, epoch_val_loss_collector,
                    mean_loss, init_patience, start_patience, monitored,
                    captured, early_stop, calls >>
    /\ UNCHANGED << fixed, at_epoch_end, restored >>

\* the training pass is over: extend the training log, enter the validation
\* pass when a validation source was given
TrainDone ==
    /\ pc = "train"
    /\ Len(epoch_train_loss_collector) = training_loader.batches
    /\ logger' = [logger EXCEPT !.training_loss = @ \o epoch_train_loss_collector]
    /\ IF val_loader # None
       THEN mode' = ModeForValidation /\ pc' = "val"
       ELSE mode' = mode /\ pc' = "monitor"
    /\ UNCHANGED << epochs, patience, best_loss, best_model_dict, params,
                    training_loader, val_loader, epoch,
                    epoch_train_loss_collector, epoch_val_loss_collector,
                    mean_loss, init_patience, start_patience, monitored,
                    captured, early_stop, calls, forward_calls >>
    /\ UNCHANGED << fixed, at_epoch_end, restored >>

\* one validation batch under torch.no_grad(): forward, collect the loss
ValBatch(loss) ==
    /\ pc = "val"
    /\ Len(epoch_val_loss_collector) < val_loader.batches
    /\ forward_calls' = forward_calls + 1
    /\ epoch_val_loss_collector' = Append(epoch_val_loss_collector, loss)
    /\ UNCHANGED << epochs, patience, best_loss, best_model_dict, logger,
                    params, mode, pc, training_loader, val_loader, epoch,
                    epoch_train_loss_collector, mean_loss, init_patience,
                    start_patience, monitored, captured, early_stop, calls >>
    /\ UNCHANGED << fixed, at_epoch_end, restored >>

\* a forward computation of the validation pass raises
ValRaise ==
    /\ pc = "val"
    /\ Len(epoch_val_loss_collector) < val_loader.batches
    /\ forward_calls' = forward_calls + 1
    /\ pc' = "raised"
    /\ UNCHANGED << epochs, patience, best_loss, best_model_dict, logger, mode,
                    params, training_loader, val_loader, epoch,
                    epoch_train_loss_collector, epoch_val_loss_collector,
                    mean_loss, init_patience, start_patience, monitored,
                    captured, early_stop, calls >>
    /\ UNCHANGED << fixed, at_epoch_end, restored >>

\* the validation pass is over: the validation log is extended with the
\* TRAINING collector (base.py line 111)
ValDone ==
    /\ pc = "val"
    /\ Len(epoch_val_loss_collector) = val_loader.batches
    /\ logger' = [logger EXCEPT !.validating_loss = @ \o epoch_train_loss_collector]
    /\ pc' = "monitor"
    /\ UNCHANGED << epochs, patience, best_loss, best_model_dict, params, mode,
                    training_loader, val_loader, epoch,
                    epoch_train_loss_collector, epoch_val_loss_collector,
                    mean_loss, init_patience, start_patience, monitored,
                    captured, early_stop, calls, forward_calls >>
    /\ UNCHANGED << fixed, at_epoch_end, restored >>

\* variant: the training mean is monitored whether or not validation is given
MonitoredTrainOnly(mean_train_loss, mean_val_loss, vl) == mean_train_loss

\* the loss compared with best_loss
MonitoredLoss(mean_train_loss, mean_val_loss, vl) ==
    IF vl # None THEN mean_val_loss ELSE mean_train_loss

\* variant: `<=`, a tie replaces the best
ImprovesOnTie(m, best) == Leq(m, best)

\* variant: `>`, the comparison the wrong way round
ImprovesWhenWorse(m, best) == Less(best, m)

\* `if mean_loss < self.best_loss`
Improves(m, best) == Less(m, best)

\* variant: the break taken at every non-improving epoch
PatienceExceededAlways(p) == TRUE

\* variant: `<= 0`
PatienceExceededLeq(p) == p[1] <= 0

\* `if self.patience == 0`
PatienceExceeded(p) == IsZero(p)

\* the end of an epoch: the monitored loss, the best loss and snapshot, the
\* patience counter and the break
EpochEnd ==
    /\ pc = "monitor"
    /\ LET mean_train_loss == Mean(epoch_train_loss_collector)
           mean_val_loss == IF val_loader # None
                            THEN Mean(epoch_val_loss_collector) ELSE None
           m == MonitoredLoss(mean_train_loss, mean_val_loss, val_loader)
       IN  /\ mean_loss' = m
           /\ monitored' = Append(monitored, [loss |-> m,
                                               improved |-> Improves(m, best_loss)])
           /\ IF Improves(m, best_loss)
              THEN /\ best_loss' = m
                   /\ best_model_dict' = StateDict
                   /\ captured' = [epoch |-> epoch, params |-> params]
                   /\ epoch' = epoch + 1
                   /\ pc' = "for"
                   /\ UNCHANGED << patience, early_stop >>
              ELSE /\ patience' = Minus1(patience)
                   /\ IF PatienceExceeded(patience')
                      THEN early_stop' = TRUE /\ pc' = "finished" /\ epoch' = epoch
                      ELSE early_stop' = early_stop /\ pc' = "for" /\ epoch' = epoch + 1
                   /\ UNCHANGED << best_loss, best_model_dict, captured >>
    /\ UNCHANGED << epochs, logger, params, mode, training_loader, val_loader,
                    epoch_train_loss_collector, epoch_val_loss_collector,
                    init_patience, start_patience, calls, forward_calls >>
    /\ at_epoch_end' = [best_loss |-> best_loss',
                        best_model_dict |-> best_model_dict',
                        tensors |-> IF best_model_dict' = None
                                    THEN None ELSE Tensors(best_model_dict')]
    /\ UNCHANGED << fixed, restored >>

\* print('Finished training.') and return
Finished ==
    /\ pc = "finished"
    /\ pc' = "returned"
    /\ UNCHANGED << epochs, patience, best_loss, best_model_dict, logger,
                    params, mode, training_loader, val_loader, epoch,
                    epoch_train_loss_collector, epoch_val_loss_collector,
                    mean_loss, init_patience, start_patience, monitored,
                    captured, early_stop, calls, forward_calls >>
    /\ UNCHANGED << fixed, at_epoch_end, restored >>

\* the step a concrete fit takes after _train_model has returned with a
\* snapshot: self.model.load_state_dict(self.best_model_dict), which copies
\* the snapshot's tensors into the live parameters
LoadBest ==
    /\ pc = "returned"
    /\ ~restored
    /\ best_model_dict # None
    /\ params' = Tensors(best_model_dict)
    /\ restored' = TRUE
    /\ UNCHANGED << epochs, patience, best_loss, best_model_dict, logger, mode,
                    pc, training_loader, val_loader, epoch,
                    epoch_train_loss_collector, epoch_val_loss_collector,
                    mean_loss, init_patience, start_patience, monitored,
                    captured, early_stop, calls, forward_calls >>
    /\ UNCHANGED << fixed, at_epoch_end >>

Loaders == { Loader(n) : n \in 1 .. MaxBatches }

Next ==
    \/ \E tl \in Loaders, vl \in Loaders \cup { None } : TrainModel(tl, vl)
    \/ ForEpoch
    \/ \E loss \in LossValues : TrainBatch(loss)
    \/ TrainRaise
    \/ TrainDone
    \/ \E loss \in LossValues : ValBatch(loss)
    \/ ValRaise
    \/ ValDone
    \/ EpochEnd
    \/ Finished
    \/ LoadBest

Spec == Init /\ [][Next]_vars

\* a step inside a running call; the interpreter runs the call to its end
CallStep ==
    \/ ForEpoch
    \/ \E loss \in LossValues : TrainBatch(loss)
    \/ TrainRaise
    \/ TrainDone
    \/ \E loss \in LossValues : ValBatch(loss)
    \/ ValRaise
    \/ ValDone
    \/ EpochEnd
    \/ Finished

\* Spec with a running call always continued
LiveSpec == Init /\ [][Next]_vars /\ WF_vars(CallStep)

\* the same object built from any arguments __init__ accepts
SpecAny == InitAny /\ [][Next]_vars

\* ------------------------------------------------------------- properties
Returned == pc = "returned"

\* the monitored losses of the epochs run so far in this call
Losses == [ i \in 1 .. Len(monitored) |-> monitored[i].loss ]

\* C1: with patience configured as 0, a call in which an epoch after the
\* first (and before the last of the budget) fails to improve returns having
\* run fewer than `epochs` epochs.
C1_ZeroPatienceStopsEarly ==
    ( /\ Returned
      /\ init_patience = Num(0)
      /\ \E i \in 2 .. Len(monitored) : i < epochs /\ ~monitored[i].improved )
    => Len(monitored) < epochs

\* C2: whenever a _train_model call is running or has returned, the patience
\* counter it started with is the patience given at construction.
C2_PatienceResetEachCall ==
    calls > 0 => start_patience = init_patience

\* C3: a captured snapshot holds the parameter values the model had when it
\* was captured; later optimizer steps do not change it.
C3_SnapshotImmutable ==
    best_model_dict # None => Tensors(best_model_dict) = captured.params

\* C4: after every epoch of a call, best_loss is the minimum monitored loss of
\* the epochs run so far and the retained snapshot is the one captured at the
\* first epoch attaining it (a tie does not replace it, a lower loss does).
FirstMinimum ==
    CHOOSE i \in 1 .. Len(monitored) :
        /\ \A j \in 1 .. Len(monitored) : Leq(Losses[i], Losses[j])
        /\ \A j \in 1 .. i - 1 : Less(Losses[i], Losses[j])

C4_BestIsFirstMinimum ==
    Len(monitored) > 0 =>
        /\ best_loss = Losses[FirstMinimum]
        /\ best_model_dict # None
        /\ captured # None
        /\ captured.epoch = FirstMinimum - 1

\* losses 2, 2, 1, 1 under unbounded patience: the tie at epoch 2 kept the
\* epoch-1 capture, epoch 3 replaced it, the tie at epoch 4 kept epoch 3's
C4_Witness ==
    /\ init_patience = Inf
    /\ Losses = << Num(2), Num(2), Num(1), Num(1) >>
    /\ captured.epoch = 2
    /\ best_loss = Num(1)

\* C5: a call that starts with the configured patience p >= 1 and ends by
\* early stop has run at least p epochs, the last p of them all non-improving.
C5_StopOnlyAfterConsecutive ==
    ( /\ early_stop
      /\ start_patience = init_patience
      /\ init_patience # Inf
      /\ init_patience[1] >= 1 )
    => LET p == init_patience[1]
           n == Len(monitored)
       IN  /\ n >= p
           /\ \A i \in (n - p + 1) .. n : ~monitored[i].improved

\* C6: with patience configured as inf no call early-stops, and a call that
\* has left the loop has run exactly `epochs` epochs.
C6_UnboundedRunsAll ==
    init_patience = Inf =>
        /\ ~early_stop
        /\ pc \in { "finished", "returned" } => Len(monitored) = epochs

C6_Witness ==
    /\ init_patience = Inf
    /\ Returned
    /\ epochs >= 3
    /\ Len(monitored) = epochs
    /\ ~monitored[2].improved
    /\ ~monitored[3].improved

\* C7: in the step that ends an epoch, an improving loss leaves the patience
\* counter unchanged and the loop goes on; otherwise the counter goes down by
\* one (inf stays inf) and the loop is left exactly when it is then zero;
\* once left, the call runs no further epoch.  With epochs = 3, a counter of
\* 1 at the start, no validation and losses 3/2, 2 (the order of 0.5, 0.6),
\* the call has ended after two epochs with best_loss = 3/2.
C7_Step ==
    pc = "monitor" =>
        IF Less(mean_loss', best_loss)
        THEN patience' = patience /\ pc' = "for" /\ epoch' = epoch + 1
        ELSE /\ patience[2] = 1 => patience' = Num(patience[1] - 1)
             /\ patience = Inf => patience' = Inf
             /\ IF patience' = Num(0)
                THEN pc' = "finished" /\ epoch' = epoch /\ early_stop'
                ELSE pc' = "for" /\ epoch' = epoch + 1 /\ early_stop' = early_stop

C7_NoFurtherEpoch ==
    (pc \in { "finished", "returned" } /\ calls' = calls) =>
        monitored' = monitored /\ params' = params /\ pc' \in { "finished", "returned" }

C7_Scenario ==
    ( /\ epochs = 3
      /\ start_patience = Num(1)
      /\ val_loader = None
      /\ Len(monitored) >= 2
      /\ Losses[1] = << 3, 2 >>
      /\ Losses[2] = Num(2) )
    => /\ Len(monitored) = 2
       /\ pc \in { "finished", "returned" }
       /\ early_stop
       /\ best_loss = << 3, 2 >>

C7_DecrementAndStop ==
    /\ [][C7_Step /\ C7_NoFurtherEpoch]_vars
    /\ []C7_Scenario

C7_Witness ==
    /\ Returned
    /\ epochs = 3
    /\ start_patience = Num(1)
    /\ val_loader = None
    /\ Losses = << << 3, 2 >>, Num(2) >>
    /\ patience = Num(0)
    /\ best_loss = << 3, 2 >>

\* C8: when a call has returned, best_loss is less than or equal to the
\* monitored loss of every epoch the call ran.
C8_BestBelowAll ==
    Returned => \A i \in 1 .. Len(monitored) : Leq(best_loss, Losses[i])

C8_Witness ==
    /\ Returned
    /\ Len(monitored) = 3
    /\ Less(Losses[2], Losses[1])
    /\ Less(Losses[2], Losses[3])
    /\ best_loss = Losses[2]

\* the loop of _train_model on a newly constructed object (counter p, best
\* loss `best`) over the per-epoch monitored losses s, from epoch k + 1 on;
\* `ended` is FALSE when s runs out before the loop ends
RECURSIVE FreshRun(_, _, _, _, _, _)
FreshRun(s, budget, k, p, best, at) ==
    IF k = budget
    THEN [run |-> k, best_loss |-> best, best_epoch |-> at, ended |-> TRUE]
    ELSE IF k = Len(s)
    THEN [run |-> k, best_loss |-> best, best_epoch |-> at, ended |-> FALSE]
    ELSE IF Less(s[k + 1], best)
    THEN FreshRun(s, budget, k + 1, p, s[k + 1], k)
    ELSE IF IsZero(Minus1(p))
    THEN [run |-> k + 1, best_loss |-> best, best_epoch |-> at, ended |-> TRUE]
    ELSE FreshRun(s, budget, k + 1, Minus1(p), best, at)

\* C9: every call starts with best_loss = inf and no snapshot, and the outcome
\* of a returned call (epochs run, best_loss, best epoch) is the one the same
\* per-epoch losses give on a newly constructed object, whatever earlier
\* calls did.
C9_CallIndependentOfEarlier ==
    /\ (pc = "for" /\ monitored = << >>) =>
           best_loss = Inf /\ best_model_dict = None
    /\ Returned =>
           LET r == FreshRun(Losses, epochs, 0, init_patience, Inf, -1)
           IN  /\ r.ended
               /\ r.run = Len(monitored)
               /\ r.best_loss = best_loss
               /\ r.best_epoch = IF captured = None THEN -1 ELSE captured.epoch

\* C10: the loss compared with best_loss at the end of an epoch is the mean
\* of the epoch's validation batch losses when a validation source was given
\* and the mean of its training batch losses otherwise, and it alone decides
\* whether the epoch improves.
C10_Step ==
    pc = "monitor" =>
        LET m == IF val_loader # None
                 THEN Mean(epoch_val_loss_collector)
                 ELSE Mean(epoch_train_loss_collector)
        IN  /\ mean_loss' = m
            /\ monitored'[Len(monitored')].loss = m
            /\ monitored'[Len(monitored')].improved = Less(m, best_loss)
            /\ best_loss' = IF Less(m, best_loss) THEN m ELSE best_loss

C10_MonitoredLossSource == [][C10_Step]_vars

\* validation given; in epoch 2 the training mean is below the best loss but
\* the validation mean is not, and the epoch counted as non-improving
C10_Witness ==
    /\ val_loader # None
    /\ pc = "for"
    /\ Len(monitored) = 2
    /\ ~monitored[2].improved
    /\ mean_loss = Mean(epoch_val_loss_collector)
    /\ Less(Mean(epoch_train_loss_collector), Losses[1])

\* C11: once the loop has ended with a snapshot present and fit has loaded
\* it, the live parameters are those of the best epoch (the values they had
\* when the retained snapshot was captured), not those of the last epoch.
C11_RestoredToBest ==
    (Returned /\ restored /\ best_model_dict # None) =>
        params = captured.params

\* C12: every call begins by setting best_loss to inf and best_model_dict to
\* None, whatever an earlier call left; and on an object with epochs = 0 no
\* forward call and no optimizer step is ever made, no call raises, and
\* best_loss stays inf and best_model_dict None throughout.
C12_EntryResets ==
    calls' = calls + 1 => best_loss' = Inf /\ best_model_dict' = None

C12_ZeroBudgetState ==
    epochs = 0 =>
        /\ forward_calls = 0
        /\ params = 0
        /\ monitored = << >>
        /\ best_loss = Inf
        /\ best_model_dict = None
        /\ pc \in { "idle", "for", "finished", "returned" }

C12_ZeroBudgetNoTraining ==
    /\ [][C12_EntryResets]_vars
    /\ []C12_ZeroBudgetState

\* the second call on an object with epochs = 0 has returned
C12_Witness ==
    /\ epochs = 0
    /\ calls = 2
    /\ Returned
    /\ best_model_dict = None

\* C13: when a training forward computation has raised in epoch k, the call
\* is over, and best_loss and the snapshot (the object and the values it
\* holds) are as they were when epoch k - 1 ended.
C13_RaiseKeepsProgress ==
    (pc = "raised" /\ mode = "train") =>
        /\ best_loss = at_epoch_end.best_loss
        /\ best_model_dict = at_epoch_end.best_model_dict
        /\ best_model_dict # None =>
               Tensors(best_model_dict) = at_epoch_end.tensors

\* C14: no object on which _train_model has been called holds a negative
\* epoch budget, a non-positive learning rate or a batch size of zero.
C14_InvalidConfigRejected ==
    calls > 0 => epochs >= 0 /\ Less(Num(0), lr) /\ batch_size # 0

\* C15: a snapshot is present exactly when best_loss is below inf; a call
\* that has left the loop did so by early stop or by exhausting the budget,
\* and then a snapshot is present exactly when some epoch of it improved.
C15_SnapshotIffImproved ==
    /\ best_model_dict # None <=> Less(best_loss, Inf)
    /\ pc \in { "finished", "returned" } =>
           /\ early_stop \/ Len(monitored) = epochs
           /\ best_model_dict # None <=>
                  \E i \in 1 .. Len(monitored) : monitored[i].improved

C15_Witness ==
    /\ Returned
    /\ early_stop
    /\ Len(monitored) = 3
    /\ monitored[2].improved
    /\ best_model_dict # None

\* C16: learning rate, epoch budget, patience, batch size and weight decay
\* always equal the values given at construction.
C16_ConfigImmutable ==
    /\ lr = constructed.learning_rate
    /\ epochs = constructed.epochs
    /\ patience = constructed.patience
    /\ batch_size = constructed.batch_size
    /\ weight_decay = constructed.weight_decay

\* C17: a running call eventually ends (returns, or a forward computation
\* raises); it never runs more than `epochs` epochs, and once it has
\* early-stopped it has left the loop for good.
Running == pc \in { "for", "train", "val", "monitor", "finished" }

C17_Terminates ==
    /\ Running ~> (pc \in { "returned", "raised" })
    /\ [](Len(monitored) <= epochs)
    /\ [](early_stop => pc \in { "finished", "returned" })

C17_Witness ==
    /\ Returned
    /\ early_stop
    /\ Len(monitored) = 2
    /\ epochs = 4

\* C18: when the passes of an epoch with a validation source are over, the
\* last entries of the validation-loss log are the epoch's validation batch
\* losses in order and the last entries of the training-loss log are its
\* training batch losses.
EndsWith(log, s) ==
    /\ Len(log) >= Len(s)
    /\ SubSeq(log, Len(log) - Len(s) + 1, Len(log)) = s

C18_LogsHoldBatchLosses ==
    (pc = "monitor" /\ val_loader # None) =>
        /\ EndsWith(logger.training_loss, epoch_train_loss_collector)
        /\ EndsWith(logger.validating_loss, epoch_val_loss_collector)

\* C19: every step of the validation pass leaves the parameters unchanged
\* and finds the model in evaluation mode; a training batch takes exactly one
\* optimizer step with the model in training mode; the parameters change in
\* no other step.
C19_Step ==
    /\ pc = "val" => params' = params /\ mode = "eval"
    /\ pc = "train" => mode = "train"
    /\ (pc = "train" /\ epoch_train_loss_collector' # epoch_train_loss_collector)
           => params' = params + 1
    /\ params' # params =>
           /\ pc = "train"
           /\ Len(epoch_train_loss_collector') = Len(epoch_train_loss_collector) + 1

C19_NoUpdateInValidation == [][C19_Step]_vars

\* second epoch: a validation batch has been processed after the model went
\* through train, eval and train mode again
C19_Witness ==
    /\ pc = "val"
    /\ Len(monitored) = 1
    /\ Len(epoch_val_loss_collector) = 1
    /\ params = 2 * training_loader.batches

\* C20: an early stop leaves the counter at exactly zero; a call that starts
\* with a counter of zero or less never early-stops: each non-improving epoch
\* takes the counter one further below, and when the loop is left `epochs`
\* epochs have run.
NonImproving == { i \in 1 .. Len(monitored) : ~monitored[i].improved }

C20_NonPositiveCounterNeverStops ==
    /\ early_stop => patience = Num(0)
    /\ (calls > 0 /\ start_patience # Inf /\ start_patience[1] <= 0) =>
           /\ ~early_stop
           /\ patience = Num(start_patience[1] - Cardinality(NonImproving))
           /\ pc \in { "finished", "returned" } => Len(monitored) = epochs

\* the call after one that early-stopped: it ran its whole budget although
\* two epochs did not improve
C20_Witness ==
    /\ Returned
    /\ calls = 2
    /\ init_patience = Num(1)
    /\ start_patience = Num(0)
    /\ Len(monitored) = epochs
    /\ Cardinality(NonImproving) = 2

====
